---- MODULE Spec2Model ----
(***************************************************************************)
(* Model of lib/index.js of http-graceful-shutdown: the module-level       *)
(* shutdown flag, connection registry and id counter, and the handlers     *)
(* that GracefulShutdown(server, opts) installs on the server, on its      *)
(* sockets and on the process.  Node runs every handler to completion, so  *)
(* each handler is one action.                                             *)
(***************************************************************************)
EXTENDS Integers, Sequences, FiniteSets, TLC

\* ------------------------------------------------------------------ bounds
MaxConns == 2       \* connections accepted in one behaviour
MaxInflight == 2    \* requests pipelined on one connection at a time
MaxTriggers == 2    \* signal deliveries handled by one instance

\* --------------------------------------------------------------- constants
DefaultTimeout == 30000

AllServers == {1, 2}                    \* servers a process may manage
Signals == {"SIGINT", "SIGTERM"}
SockIds == 0 .. (MaxConns - 1)          \* sockets in order of acceptance

VARIABLES
  installed,          \* servers GracefulShutdown has been called for
  options,            \* options[i]: the merged options of instance i
  hookOutcome,        \* what the promise returned by onShutdown() will do
  isShuttingDown,     \* module-level flag
  connections,        \* module-level registry: connection id -> socket
  connectionCounter,  \* module-level id counter
  sock,               \* the socket objects: fields set by the handlers
  timer,              \* timer[i]: the forced-exit timeout of instance i
  hook,               \* hook[i]: the promise returned by onShutdown()
  server,             \* server[i]: listening / closing
  exitCodes,          \* arguments of the process.exit calls, in order
  triggers,           \* triggers[i]: calls of shutdown(sig) of instance i
  calls               \* calls[i]: how often each side effect happened

vars == <<installed, options, hookOutcome, isShuttingDown, connections,
          connectionCounter, sock, timer, hook, server, exitCodes,
          triggers, calls>>

\* everything but the count of shutdown(sig) calls
progVars == <<installed, options, hookOutcome, isShuttingDown, connections,
              connectionCounter, sock, timer, hook, server, exitCodes, calls>>

config == <<installed, options, hookOutcome>>

\* ----------------------------------------------------------------- options
DefaultOptions ==
  [timeout |-> DefaultTimeout, development |-> FALSE,
   onShutdown |-> "undefined", finally |-> "undefined"]

OptionSets ==
  [timeout : {0, DefaultTimeout}, development : BOOLEAN,
   onShutdown : {"undefined", "function"},
   finally : {"undefined", "function"}]

isFunction(functionToCheck) == functionToCheck = "function"

NoSocket ==
  [state |-> "none", isIdle |-> FALSE, connectionId |-> 0, server |-> 1,
   inflight |-> 0, forced |-> FALSE]

NoCalls == [timers |-> 0, hooks |-> 0, sweeps |-> 0, closes |-> 0,
            finallys |-> 0]

Running == exitCodes = <<>>

\* ---------------------------------------------------------------- registry
Remove(conns, id) == [k \in (DOMAIN conns) \ {id} |-> conns[k]]

Put(conns, id, s) ==
  [k \in (DOMAIN conns) \cup {id} |-> IF k = id THEN s ELSE conns[k]]

\* destroy(socket) without the isShuttingDown test
destroyWhenIdle(S, s, shutting) ==
  IF S.sock[s].isIdle
  THEN [sock |-> [S.sock EXCEPT
                    ![s].state = IF @ = "open" THEN "destroyed" ELSE @,
                    ![s].forced = (S.sock[s].state = "open") \/ @],
        connections |-> Remove(S.connections, S.sock[s].connectionId)]
  ELSE S

\* destroy(socket) with the delete statement left out
destroyKeepsEntry(S, s, shutting) ==
  IF S.sock[s].isIdle /\ shutting
  THEN [sock |-> [S.sock EXCEPT
                    ![s].state = IF @ = "open" THEN "destroyed" ELSE @,
                    ![s].forced = (S.sock[s].state = "open") \/ @],
        connections |-> S.connections]
  ELSE S

\* destroy(socket), on the pair S = [sock, connections]; shutting is the
\* value of isShuttingDown when it is called
destroy(S, s, shutting) ==
  IF S.sock[s].isIdle /\ shutting
  THEN [sock |-> [S.sock EXCEPT
                    ![s].state = IF @ = "open" THEN "destroyed" ELSE @,
                    ![s].forced = (S.sock[s].state = "open") \/ @],
        connections |-> Remove(S.connections, S.sock[s].connectionId)]
  ELSE S

Min(set) == CHOOSE x \in set : \A y \in set : x <= y

\* Object.keys(connections).forEach(key => destroy(connections[key]))
RECURSIVE destroyAll(_, _, _)
destroyAll(S, keys, shutting) ==
  IF keys = {} THEN S
  ELSE LET key == Min(keys)
           S1 == IF key \in DOMAIN S.connections
                 THEN destroy(S, S.connections[key], shutting)
                 ELSE S
       IN destroyAll(S1, keys \ {key}, shutting)

\* ------------------------------------------------------------ process exit
\* no 'exit' handler registered
exitCallsSkipped == calls

\* process.exit(code): the 'exit' handlers of all instances run, then the
\* process is gone
exitCalls ==
  [i \in AllServers |->
     IF i \in installed /\ isFunction(options[i].finally)
     THEN [calls[i] EXCEPT !.finallys = @ + 1]
     ELSE calls[i]]

\* -------------------------------------------------------------------- Init
HookOutcomes == {"resolve", "hang", "reject"}

InitShared ==
  /\ isShuttingDown = FALSE
  /\ connections = [k \in {} |-> 0]
  /\ connectionCounter = 0
  /\ sock = [s \in SockIds |-> NoSocket]
  /\ timer = [i \in AllServers |-> "off"]
  /\ hook = [i \in AllServers |-> "none"]
  /\ server = [i \in AllServers |-> "listening"]
  /\ exitCodes = <<>>
  /\ triggers = [i \in AllServers |-> 0]
  /\ calls = [i \in AllServers |-> NoCalls]

\* one server, GracefulShutdown(server, opts) called once for it
Init ==
  /\ installed = {1}
  /\ \E o \in OptionSets, h \in HookOutcomes :
       /\ isFunction(o.onShutdown) \/ h = "resolve"
       /\ options = [i \in AllServers |-> IF i = 1 THEN o ELSE DefaultOptions]
       /\ hookOutcome = [i \in AllServers |-> IF i = 1 THEN h ELSE "resolve"]
  /\ InitShared

\* --------------------------------------------------------- server handlers
\* the connection handler taking the id from the size of the registry
ConnectionOpenReusesId(i) ==
  /\ Running
  /\ i \in installed
  /\ server[i] = "listening"
  /\ connectionCounter < MaxConns
  /\ \E s \in SockIds :
       /\ sock[s].state = "none"
       /\ \A r \in SockIds : r < s => sock[r].state # "none"
       /\ LET id == Cardinality(DOMAIN connections) IN
            /\ connectionCounter' = connectionCounter + 1
            /\ sock' = [sock EXCEPT ![s] =
                          [state |-> "open", isIdle |-> TRUE,
                           connectionId |-> id, server |-> i,
                           inflight |-> 0, forced |-> FALSE]]
            /\ connections' = Put(connections, id, s)
  /\ UNCHANGED <<config, isShuttingDown, timer, hook, server, exitCodes,
                 triggers, calls>>

\* server.on('connection', ...)
ConnectionOpen(i) ==
  /\ Running
  /\ i \in installed
  /\ server[i] = "listening"
  /\ connectionCounter < MaxConns
  /\ \E s \in SockIds :
       /\ sock[s].state = "none"
       /\ \A r \in SockIds : r < s => sock[r].state # "none"
       /\ LET id == connectionCounter IN
            /\ connectionCounter' = connectionCounter + 1
            /\ sock' = [sock EXCEPT ![s] =
                          [state |-> "open", isIdle |-> TRUE,
                           connectionId |-> id, server |-> i,
                           inflight |-> 0, forced |-> FALSE]]
            /\ connections' = Put(connections, id, s)
  /\ UNCHANGED <<config, isShuttingDown, timer, hook, server, exitCodes,
                 triggers, calls>>

\* socket.on('close', ...): the peer closed an open socket, or the close
\* event of a socket that was destroyed
SocketClose(s) ==
  /\ Running
  /\ sock[s].state \in {"open", "destroyed"}
  /\ sock' = [sock EXCEPT ![s].state = "closed"]
  /\ connections' = Remove(connections, sock[s].connectionId)
  /\ UNCHANGED <<config, isShuttingDown, connectionCounter, timer, hook,
                 server, exitCodes, triggers, calls>>

\* server.on('request', ...)
RequestStart(s) ==
  /\ Running
  /\ sock[s].state = "open"
  /\ sock[s].inflight < MaxInflight
  /\ sock' = [sock EXCEPT ![s].isIdle = FALSE, ![s].inflight = @ + 1]
  /\ UNCHANGED <<config, isShuttingDown, connections, connectionCounter,
                 timer, hook, server, exitCodes, triggers, calls>>

\* the finish handler without its destroy call
RequestFinishNoDestroy(s) ==
  /\ Running
  /\ sock[s].state = "open"
  /\ sock[s].inflight > 0
  /\ sock' = [sock EXCEPT ![s].isIdle = TRUE, ![s].inflight = @ - 1]
  /\ UNCHANGED <<config, isShuttingDown, connections, connectionCounter,
                 timer, hook, server, exitCodes, triggers, calls>>

\* res.on('finish', ...)
RequestFinish(s) ==
  /\ Running
  /\ sock[s].state = "open"
  /\ sock[s].inflight > 0
  /\ LET S0 == [sock |-> [sock EXCEPT ![s].isIdle = TRUE,
                                      ![s].inflight = @ - 1],
                connections |-> connections]
         S1 == destroy(S0, s, isShuttingDown)
     IN /\ sock' = S1.sock
        /\ connections' = S1.connections
  /\ UNCHANGED <<config, isShuttingDown, connectionCounter, timer, hook,
                 server, exitCodes, triggers, calls>>

\* ---------------------------------------------------------------- shutdown
\* the development check left out
DevFastPathIgnored(i) == FALSE

DevFastPath(i) == options[i].development

\* the isShuttingDown guard left out
FirstTriggerUnguarded == TRUE

FirstTrigger == ~isShuttingDown

\* the timeout armed whatever options.timeout is
TimerEnabledAlways(i) == TRUE

\* the timeout never armed
TimerEnabledNever(i) == FALSE

\* the timeout armed only on the path without a hook
TimerEnabledWithoutHook(i) ==
  options[i].timeout # 0 /\ ~isFunction(options[i].onShutdown)

TimerEnabled(i) == options[i].timeout # 0

UsesHook(i) ==
  options[i].onShutdown # "undefined" /\ isFunction(options[i].onShutdown)

\* cleanupHttp() without the sweep of the registry
cleanupHttpNoSweep(i, c, shutting) ==
  /\ UNCHANGED <<sock, connections>>
  /\ server' = [server EXCEPT ![i] = "closing"]
  /\ calls' = [c EXCEPT ![i].sweeps = @ + 1, ![i].closes = @ + 1]

\* cleanupHttp() without the server.close call
cleanupHttpNoClose(i, c, shutting) ==
  LET S == destroyAll([sock |-> sock, connections |-> connections],
                      DOMAIN connections, shutting)
  IN /\ sock' = S.sock
     /\ connections' = S.connections
     /\ server' = server
     /\ calls' = [c EXCEPT ![i].sweeps = @ + 1]

\* cleanupHttp(): sweep the registry, then server.close(callback);
\* c is calls as updated so far in this step
cleanupHttp(i, c, shutting) ==
  LET S == destroyAll([sock |-> sock, connections |-> connections],
                      DOMAIN connections, shutting)
  IN /\ sock' = S.sock
     /\ connections' = S.connections
     /\ server' = [server EXCEPT ![i] = "closing"]
     /\ calls' = [c EXCEPT ![i].sweeps = @ + 1, ![i].closes = @ + 1]

\* the idle sweep done before the hook is invoked
onShutdownBranchReapFirst(i, c) ==
  LET S == destroyAll([sock |-> sock, connections |-> connections],
                      DOMAIN connections, TRUE)
  IN /\ sock' = S.sock
     /\ connections' = S.connections
     /\ hook' = [hook EXCEPT ![i] = "pending"]
     /\ calls' = [c EXCEPT ![i].hooks = @ + 1, ![i].sweeps = @ + 1]
     /\ UNCHANGED server

\* the hook invoked but not awaited: cleanupHttp runs at once
onShutdownBranchNoAwait(i, c) ==
  /\ hook' = [hook EXCEPT ![i] = "pending"]
  /\ cleanupHttp(i, [c EXCEPT ![i].hooks = @ + 1], TRUE)

\* options.onShutdown().then(...) at the trigger
onShutdownBranch(i, c) ==
  /\ hook' = [hook EXCEPT ![i] = "pending"]
  /\ calls' = [c EXCEPT ![i].hooks = @ + 1]
  /\ UNCHANGED <<sock, connections, server>>

\* shutdown(sig), called by the signal handler
Shutdown(i, sig) ==
  /\ Running
  /\ i \in installed
  /\ triggers[i] < MaxTriggers
  /\ triggers' = [triggers EXCEPT ![i] = @ + 1]
  /\ IF DevFastPath(i)
     THEN /\ exitCodes' = Append(exitCodes, 0)
          /\ calls' = exitCalls
          /\ UNCHANGED <<isShuttingDown, timer, hook, sock, connections,
                         server>>
     ELSE IF FirstTrigger
     THEN /\ isShuttingDown' = TRUE
          /\ timer' = IF TimerEnabled(i)
                      THEN [timer EXCEPT ![i] = "armed"] ELSE timer
          /\ LET c == IF TimerEnabled(i)
                      THEN [calls EXCEPT ![i].timers = @ + 1] ELSE calls
             IN IF UsesHook(i)
                THEN onShutdownBranch(i, c)
                ELSE cleanupHttp(i, c, TRUE) /\ UNCHANGED hook
          /\ UNCHANGED exitCodes
     ELSE UNCHANGED <<isShuttingDown, timer, hook, sock, connections,
                      server, exitCodes, calls>>
  /\ UNCHANGED <<config, connectionCounter>>

\* the promise returned by onShutdown() resolves: .then runs cleanupHttp
HookResolve(i) ==
  /\ Running
  /\ hook[i] = "pending"
  /\ hookOutcome[i] = "resolve"
  /\ hook' = [hook EXCEPT ![i] = "resolved"]
  /\ cleanupHttp(i, calls, isShuttingDown)
  /\ UNCHANGED <<config, isShuttingDown, connectionCounter, timer,
                 exitCodes, triggers>>

\* cleanupHttp attached as the rejection handler too
HookRejectRunsCleanup(i) ==
  /\ Running
  /\ hook[i] = "pending"
  /\ hookOutcome[i] = "reject"
  /\ hook' = [hook EXCEPT ![i] = "rejected"]
  /\ cleanupHttp(i, calls, isShuttingDown)
  /\ UNCHANGED <<config, isShuttingDown, connectionCounter, timer,
                 exitCodes, triggers>>

\* the promise rejects: no rejection handler was attached
HookReject(i) ==
  /\ Running
  /\ hook[i] = "pending"
  /\ hookOutcome[i] = "reject"
  /\ hook' = [hook EXCEPT ![i] = "rejected"]
  /\ UNCHANGED <<config, isShuttingDown, connections, connectionCounter,
                 sock, timer, server, exitCodes, triggers, calls>>

\* the timeout callback exiting with status 0
TimerFireExitsZero(i) ==
  /\ Running
  /\ timer[i] = "armed"
  /\ timer' = [timer EXCEPT ![i] = "fired"]
  /\ exitCodes' = Append(exitCodes, 0)
  /\ calls' = exitCalls
  /\ UNCHANGED <<config, isShuttingDown, connections, connectionCounter,
                 sock, hook, server, triggers>>

\* the setTimeout callback
TimerFire(i) ==
  /\ Running
  /\ timer[i] = "armed"
  /\ timer' = [timer EXCEPT ![i] = "fired"]
  /\ exitCodes' = Append(exitCodes, 1)
  /\ calls' = exitCalls
  /\ UNCHANGED <<config, isShuttingDown, connections, connectionCounter,
                 sock, hook, server, triggers>>

\* the server.close callback: the listener is closed and every connection
\* of the server has ended
CloseConfirm(i) ==
  /\ Running
  /\ server[i] = "closing"
  /\ \A s \in SockIds :
       sock[s].server = i => sock[s].state \in {"none", "closed"}
  /\ exitCodes' = Append(exitCodes, 0)
  /\ calls' = exitCalls
  /\ UNCHANGED <<config, isShuttingDown, connections, connectionCounter,
                 sock, timer, hook, server, triggers>>

Next ==
  \/ \E i \in AllServers : ConnectionOpen(i)
  \/ \E s \in SockIds : SocketClose(s)
  \/ \E s \in SockIds : RequestStart(s)
  \/ \E s \in SockIds : RequestFinish(s)
  \/ \E i \in AllServers, sig \in Signals : Shutdown(i, sig)
  \/ \E i \in AllServers : HookResolve(i)
  \/ \E i \in AllServers : HookReject(i)
  \/ \E i \in AllServers : TimerFire(i)
  \/ \E i \in AllServers : CloseConfirm(i)

Spec == Init /\ [][Next]_vars

TypeOK ==
  /\ isShuttingDown \in BOOLEAN
  /\ connectionCounter \in 0 .. MaxConns
  /\ DOMAIN connections \subseteq 0 .. MaxConns
  /\ \A s \in SockIds :
       /\ sock[s].state \in {"none", "open", "destroyed", "closed"}
       /\ sock[s].inflight \in 0 .. MaxInflight
  /\ Len(exitCodes) <= 1

\* ------------------------------------------------------- several servers
\* the options tried when several servers are managed
MultiOptionSets ==
  [timeout : {DefaultTimeout}, development : BOOLEAN,
   onShutdown : {"function"}, finally : {"undefined"}]

MultiHookOutcomes == {"resolve", "reject"}

\* GracefulShutdown(server, opts) with the module state declared inside it
SetupResetsState(i) ==
  /\ Running
  /\ i \notin installed
  /\ installed' = installed \cup {i}
  /\ \E o \in MultiOptionSets :
       options' = [options EXCEPT ![i] = o]
  /\ hookOutcome' = [hookOutcome EXCEPT ![i] = "resolve"]
  /\ isShuttingDown' = FALSE
  /\ UNCHANGED <<connections, connectionCounter, sock, timer, hook, server,
                 exitCodes, triggers, calls>>

\* GracefulShutdown(server, opts) called for one more server: its handlers
\* are registered, the module-level flag, registry and counter stay
Setup(i) ==
  /\ Running
  /\ i \notin installed
  /\ installed' = installed \cup {i}
  /\ \E o \in MultiOptionSets :
       options' = [options EXCEPT ![i] = o]
  /\ hookOutcome' = [hookOutcome EXCEPT ![i] = "resolve"]
  /\ UNCHANGED <<isShuttingDown, connections, connectionCounter, sock, timer,
                 hook, server, exitCodes, triggers, calls>>

\* with several servers a connection pipelines one request less
RequestStartMulti(s) ==
  /\ sock[s].inflight < MaxInflight - 1
  /\ RequestStart(s)

NextMulti ==
  \/ \E i \in AllServers : Setup(i)
  \/ \E i \in AllServers : ConnectionOpen(i)
  \/ \E s \in SockIds : SocketClose(s)
  \/ \E s \in SockIds : RequestStartMulti(s)
  \/ \E s \in SockIds : RequestFinish(s)
  \/ \E i \in AllServers, sig \in Signals : Shutdown(i, sig)
  \/ \E i \in AllServers : HookResolve(i)
  \/ \E i \in AllServers : HookReject(i)
  \/ \E i \in AllServers : TimerFire(i)
  \/ \E i \in AllServers : CloseConfirm(i)

\* the first server is set up at start, the second at any later time; the
\* hook of the second is one that resolves
InitMulti ==
  /\ installed = {1}
  /\ \E o \in MultiOptionSets, h \in MultiHookOutcomes :
       /\ options = [i \in AllServers |-> IF i = 1 THEN o ELSE DefaultOptions]
       /\ hookOutcome = [i \in AllServers |-> IF i = 1 THEN h ELSE "resolve"]
  /\ InitShared

SpecMulti == InitMulti /\ [][NextMulti]_vars

\* ------------------------------------------------------------- fair specs
\* the timeout callback runs once its delay has passed
TimerSpec == Spec /\ \A i \in AllServers : WF_vars(TimerFire(i))

\* the hook's promise settles, requests finish, destroyed sockets emit
\* 'close' and the listener confirms its close; the timer is left unfair
GracefulSpec ==
  /\ Spec
  /\ \A i \in AllServers : WF_vars(HookResolve(i))
  /\ \A i \in AllServers : WF_vars(CloseConfirm(i))
  /\ \A s \in SockIds : WF_vars(RequestFinish(s))
  /\ \A s \in SockIds : WF_vars(sock[s].state = "destroyed" /\ SocketClose(s))

\* ------------------------------------------------------------ claim helpers
Registered == DOMAIN connections

HookConfigured(i) == options[i].onShutdown = "function"

DevOff(i) == options[i].development = FALSE

Triggered(i) == triggers'[i] # triggers[i]

\* ------------------------------------------------------------------ claims

\* C1: no connection is force-destroyed while a request is in flight on it,
\* and a busy connection leaves the registry only through its close event
\* or once its in-flight request has finished.
C1_NeverDestroyedBusy ==
  [][/\ \A s \in SockIds :
          (sock'[s].forced /\ ~sock[s].forced) => sock'[s].inflight = 0
     /\ \A id \in Registered \ DOMAIN connections' :
          sock[connections[id]].inflight > 0 =>
            \/ sock'[connections[id]].state = "closed"
            \/ sock'[connections[id]].inflight = 0]_vars

\* C8: the idle flag of a registered connection is false exactly while a
\* request that started on it has not finished.
C8_IdleIffNoRequest ==
  \A id \in Registered :
    sock[connections[id]].isIdle = (sock[connections[id]].inflight = 0)

\* C9: the registry holds no entry for a destroyed or closed connection.
C9_RegistryOnlyLive ==
  /\ \A s \in SockIds :
       sock[s].state \in {"destroyed", "closed"} =>
         sock[s].connectionId \notin Registered
  /\ \A id \in Registered : sock[connections[id]].state = "open"

C9_Witness ==
  /\ \E s \in SockIds : sock[s].state = "destroyed" /\ sock[s].forced
  /\ \E s \in SockIds : sock[s].state = "closed" /\ ~sock[s].forced
  /\ Registered = {}

\* C2: with development mode off the shutdown sequence runs once, and a
\* trigger after the first changes no state.
C2_ShutdownOnce ==
  /\ [](\A i \in installed :
          DevOff(i) =>
            /\ calls[i].timers <= 1 /\ calls[i].hooks <= 1
            /\ calls[i].sweeps <= 1 /\ calls[i].closes <= 1
            /\ isShuttingDown =>
                 /\ calls[i].timers = IF options[i].timeout # 0 THEN 1 ELSE 0
                 /\ calls[i].hooks = IF HookConfigured(i) THEN 1 ELSE 0)
  /\ [][\A i \in installed :
          (Triggered(i) /\ DevOff(i) /\ isShuttingDown) =>
            UNCHANGED progVars]_vars

C2_Witness ==
  /\ DevOff(1) /\ triggers[1] = 2
  /\ calls[1].timers = 1 /\ calls[1].hooks = 1
  /\ calls[1].sweeps = 1 /\ calls[1].closes = 1

C4_CloseAfterHook ==
  /\ [](\A i \in installed :
          (HookConfigured(i) /\ calls[i].closes > 0) => hook[i] = "resolved")
  /\ [][\A i \in installed :
          /\ (HookConfigured(i) /\ calls'[i].closes > calls[i].closes) =>
               hook[i] = "pending" /\ hook'[i] = "resolved"
          /\ (~HookConfigured(i) /\ DevOff(i) /\ Triggered(i)
                /\ ~isShuttingDown) =>
               calls'[i].closes = 1 /\ server'[i] = "closing"]_vars

C4_Witness ==
  /\ HookConfigured(1) /\ hook[1] = "resolved"
  /\ calls[1].closes = 1 /\ server[1] = "closing"

C5Case(i) ==
  /\ i \in installed /\ DevOff(i) /\ options[i].timeout # 0
  /\ HookConfigured(i) /\ hookOutcome[i] = "hang"

\* C5: development off, timeout set, hook never resolving: after a trigger
\* the process exits with status 1, by the timer firing, and never with 0.
C5_ForcedExit ==
  /\ [](\A i \in AllServers : C5Case(i) => exitCodes # <<0>>)
  /\ [](\A i \in AllServers :
          (C5Case(i) /\ ~Running) =>
            exitCodes = <<1>> /\ timer[i] = "fired")
  /\ \A i \in AllServers :
       (C5Case(i) /\ triggers[i] > 0) ~> (exitCodes = <<1>>)

C5_Witness ==
  /\ C5Case(1) /\ exitCodes = <<1>> /\ hook[1] = "pending"
  /\ connectionCounter > 0

C6Case(i) == i \in installed /\ options[i].timeout # 0

\* C6: with a timeout set every triggered shutdown reaches process exit,
\* and the timer is armed in the trigger step, before the hook is invoked
\* and before any connection is reaped.
C6_EventualExit ==
  /\ \A i \in AllServers : (C6Case(i) /\ triggers[i] > 0) ~> ~Running
  /\ [][\A i \in AllServers :
          (C6Case(i) /\ isShuttingDown' /\ ~isShuttingDown) =>
            timer[i] = "off" /\ timer'[i] = "armed"]_vars
  /\ [](\A i \in AllServers :
          (C6Case(i) /\ DevOff(i) /\ timer[i] = "off") =>
            /\ hook[i] = "none" /\ calls[i].sweeps = 0
            /\ \A s \in SockIds : ~sock[s].forced)

C6_Witness ==
  /\ C6Case(1) /\ exitCodes = <<1>> /\ hook[1] = "pending"
  /\ \E s \in SockIds : sock[s].state = "open" /\ sock[s].inflight > 0

C7Case(i) == i \in installed /\ DevOff(i) /\ hookOutcome[i] = "resolve"

\* C7: development off, the hook (if any) resolves, requests finish or
\* their connections close: after a trigger, unless the timer fires first,
\* the registry empties, the close is confirmed and the exit status is 0.
C7_GracefulExit ==
  \A i \in AllServers :
    (C7Case(i) /\ triggers[i] > 0) ~>
      \/ timer[i] = "fired"
      \/ /\ exitCodes = <<0>>
         /\ Registered = {}
         /\ server[i] = "closing"
         /\ \A s \in SockIds : sock[s].state \in {"none", "closed"}

C7_Witness ==
  /\ C7Case(1) /\ exitCodes = <<0>> /\ Registered = {}
  /\ hook[1] = "resolved" /\ timer[1] = "armed"
  /\ \E s \in SockIds : sock[s].state = "closed" /\ sock[s].forced
  /\ \A s \in SockIds : sock[s].state \in {"none", "closed"}

\* C10: with development mode on a trigger exits with status 0 in the same
\* step and touches nothing else.
C10_DevFastPath ==
  [][\A i \in installed :
       (Triggered(i) /\ options[i].development) =>
         /\ exitCodes' = <<0>>
         /\ isShuttingDown' = FALSE
         /\ UNCHANGED <<isShuttingDown, timer, sock, connections,
                        connectionCounter, hook, server>>
         /\ \A j \in AllServers :
              [calls'[j] EXCEPT !.finallys = 0] =
                [NoCalls EXCEPT !.finallys = 0]]_vars

C10_Witness ==
  /\ options[1].development /\ exitCodes = <<0>> /\ triggers[1] = 1
  /\ HookConfigured(1) /\ options[1].timeout # 0
  /\ \E s \in SockIds : sock[s].state = "open" /\ sock[s].isIdle

FinallyConfigured(i) == options[i].finally = "function"

\* C11: a configured finally hook is invoked exactly once when the process
\* exits, whichever path exits, and never before the exit.
C11_FinallyOnce ==
  \A i \in installed :
    FinallyConfigured(i) => calls[i].finallys = IF Running THEN 0 ELSE 1

C11_Witness ==
  /\ FinallyConfigured(1) /\ calls[1].finallys = 1
  /\ exitCodes = <<1>> /\ hook[1] = "pending"

\* the socket whose finish handler runs in this step
Finishes(s) == sock'[s].inflight < sock[s].inflight

AllEnded(i) ==
  \A s \in SockIds : sock[s].server = i => sock[s].state \in {"none", "closed"}

\* C12: the process exits at most once; the status is 1 exactly when the
\* timer fired, 0 exactly when the close was confirmed or development mode
\* took the fast path.
C12_ExitStatus ==
  /\ [](Len(exitCodes) <= 1)
  /\ [][exitCodes' # exitCodes =>
          /\ exitCodes = <<>>
          /\ exitCodes' \in {<<0>>, <<1>>}
          /\ exitCodes' = <<1>> <=>
               \E i \in installed : timer[i] = "armed" /\ timer'[i] = "fired"
          /\ exitCodes' = <<0>> <=>
               \E i \in installed :
                 \/ Triggered(i) /\ options[i].development
                 \/ /\ ~Triggered(i) /\ timer' = timer
                    /\ server[i] = "closing" /\ AllEnded(i)]_vars

C12_Witness ==
  /\ exitCodes = <<1>> /\ timer[1] = "fired"
  /\ hook[1] = "resolved" /\ server[1] = "closing"

\* C13: with timeout 0 no timer is started and the status is never 1; the
\* process then exits only with the hook settled and every connection
\* ended, so never while the hook hangs or a connection stays open.
C13Case(i) == i \in installed /\ options[i].timeout = 0

C13_NoTimer ==
  \A i \in AllServers :
    C13Case(i) =>
      /\ timer[i] = "off" /\ calls[i].timers = 0
      /\ exitCodes # <<1>>
      /\ (DevOff(i) /\ ~Running) =>
           /\ calls[i].closes = 1 /\ AllEnded(i)
           /\ HookConfigured(i) => hook[i] = "resolved"
      /\ (DevOff(i) /\ HookConfigured(i) /\ hookOutcome[i] # "resolve") =>
           Running

C13_Witness ==
  /\ C13Case(1) /\ DevOff(1) /\ triggers[1] > 0 /\ Running
  /\ hook[1] = "pending" /\ hookOutcome[1] = "hang"
  /\ \E s \in SockIds : sock[s].state = "open" /\ sock[s].inflight > 0

\* C14: while SHUTTING_DOWN a request finish sets the connection idle and
\* destroys and unregisters it in the same step; while RUNNING it only sets
\* the idle flag.
C14_FinishReclaims ==
  [][\A s \in SockIds :
       (Finishes(s) /\ sock[s].connectionId \in Registered) =>
         /\ sock'[s].isIdle
         /\ isShuttingDown =>
              /\ sock'[s].state = "destroyed" /\ sock'[s].forced
              /\ DOMAIN connections' = Registered \ {sock[s].connectionId}
         /\ ~isShuttingDown =>
              /\ sock'[s].state = "open" /\ ~sock'[s].forced
              /\ connections' = connections]_vars

C14_Witness ==
  /\ hook[1] = "pending" /\ calls[1].sweeps = 0
  /\ \E s \in SockIds : sock[s].state = "destroyed" /\ sock[s].forced
  /\ \E s \in SockIds :
       sock[s].state = "open" /\ sock[s].isIdle /\ sock[s].inflight = 0

\* C15: while RUNNING no connection is force-destroyed; registry entries
\* leave only by close events until a trigger has set SHUTTING_DOWN.
C15_NoDestroyWhileRunning ==
  /\ [](~isShuttingDown => \A s \in SockIds : ~sock[s].forced)
  /\ [][~isShuttingDown' =>
          \A id \in Registered \ DOMAIN connections' :
            /\ sock[connections[id]].state = "open"
            /\ sock'[connections[id]].state = "closed"
            /\ ~sock'[connections[id]].forced]_vars

C15_Witness ==
  /\ ~isShuttingDown /\ Running /\ connectionCounter = 2
  /\ \E s \in SockIds : sock[s].state = "closed" /\ sock[s].isIdle
  /\ \E s \in SockIds :
       sock[s].state = "open" /\ sock[s].isIdle /\ sock[s].inflight = 1

\* C16: the shutdown flag starts RUNNING, is set exactly by a trigger of an
\* instance with development off while it is clear, and no step, a second
\* GracefulShutdown setup included, clears it again.
C16_FlagMonotonic ==
  /\ ~isShuttingDown
  /\ [][/\ isShuttingDown => isShuttingDown'
        /\ (~isShuttingDown /\ isShuttingDown') <=>
             \E i \in installed :
               Triggered(i) /\ DevOff(i) /\ ~isShuttingDown]_vars

C16_Witness ==
  /\ isShuttingDown /\ installed = {1, 2} /\ triggers[1] = 2
  /\ triggers[2] = 0 /\ hook[1] = "resolved" /\ timer[1] = "armed"
  /\ \E s \in SockIds : sock[s].server = 2 /\ sock[s].state = "destroyed"

Allocated == {s \in SockIds : sock[s].state # "none"}

\* C17: every open assigns an id never assigned before (the counter only
\* grows), no two connections share a key, an open overwrites no entry,
\* and every key in the registry belongs to a connection not yet closed.
C17_FreshIds ==
  /\ [](\A s \in Allocated :
          /\ sock[s].connectionId < connectionCounter
          /\ \A r \in Allocated : r # s =>
               sock[r].connectionId # sock[s].connectionId)
  /\ [](\A id \in Registered :
          /\ sock[connections[id]].connectionId = id
          /\ sock[connections[id]].state = "open")
  /\ [][/\ connectionCounter' >= connectionCounter
        /\ Allocated' # Allocated =>
             /\ connectionCounter' = connectionCounter + 1
             /\ connectionCounter \notin Registered
             /\ DOMAIN connections' = Registered \cup {connectionCounter}
             /\ \A k \in Registered : connections'[k] = connections[k]
             /\ \A s \in Allocated' \ Allocated :
                  /\ sock'[s].connectionId = connectionCounter
                  /\ connections'[connectionCounter] = s]_vars

C17_Witness ==
  /\ connectionCounter = 2 /\ Registered = {1}
  /\ sock[0].state = "closed" /\ sock[0].connectionId = 0
  /\ sock[1].state = "open" /\ sock[1].connectionId = 1

CloseRequested == \E i \in installed : calls[i].closes > 0

\* C18: once the listener close has been requested the registry holds no
\* idle connection: the sweep destroys every idle one, and one that turns
\* idle later is destroyed in that step.
C18_NoIdleAfterClose ==
  /\ [](CloseRequested =>
          \A id \in Registered : ~sock[connections[id]].isIdle)
  /\ [][(CloseRequested' /\ ~CloseRequested) =>
          \A id \in Registered :
            sock[connections[id]].isIdle =>
              /\ sock'[connections[id]].state = "destroyed"
              /\ sock'[connections[id]].forced
              /\ id \notin DOMAIN connections']_vars

C18_Witness ==
  /\ Running /\ CloseRequested /\ hook[1] = "resolved"
  /\ triggers[1] = 1 /\ connectionCounter = 2
  /\ \E s \in SockIds : sock[s].state = "destroyed" /\ sock[s].inflight = 0
  /\ \E s \in SockIds : sock[s].state = "open" /\ sock[s].inflight = 1

\* C19: once the hook's promise has rejected the sweep never runs, the
\* close is never requested and the status is never 0; the process exits
\* only with 1 by the timer, and not at all with timeout 0.
C19_RejectStopsGraceful ==
  \A i \in installed :
    hook[i] = "rejected" =>
      /\ calls[i].sweeps = 0 /\ calls[i].closes = 0
      /\ server[i] = "listening"
      /\ exitCodes # <<0>>
      /\ ~Running => exitCodes = <<1>> /\ timer[i] = "fired"
      /\ options[i].timeout = 0 => Running

C19_Witness ==
  /\ hook[1] = "rejected" /\ exitCodes = <<1>> /\ timer[1] = "fired"
  /\ \E s \in SockIds : sock[s].state = "open" /\ sock[s].isIdle

\* instance i has run some part of the shutdown sequence
Acted(i) ==
  \/ calls[i].timers > 0 \/ calls[i].hooks > 0
  \/ calls[i].sweeps > 0 \/ calls[i].closes > 0
  \/ timer[i] # "off" \/ hook[i] # "none" \/ server[i] # "listening"

\* C20: two servers share the flag, the registry and the counter: only the
\* instance triggered first arms a timer, invokes its hook and requests its
\* close, the trigger of the other is a no-op, and the sweep of the first
\* takes the idle connections of both servers.
C20_SharedState ==
  /\ [](\A i \in installed : \A j \in installed :
          (i # j /\ Acted(i)) => ~Acted(j))
  /\ [](\A s \in Allocated :
          sock[s].state = "open" =>
            /\ sock[s].connectionId \in Registered
            /\ connections[sock[s].connectionId] = s)
  /\ [][\A j \in installed :
          /\ (Triggered(j) /\ DevOff(j) /\ isShuttingDown) =>
               UNCHANGED progVars
          /\ calls'[j].sweeps > calls[j].sweeps =>
               \A id \in Registered :
                 sock[connections[id]].isIdle =>
                   sock'[connections[id]].state = "destroyed"]_vars

\* the process has exited with 0 while the second server, whose trigger
\* was a no-op, still has a request in flight
C20_Witness ==
  /\ installed = {1, 2} /\ DevOff(1) /\ DevOff(2)
  /\ triggers[1] > 0 /\ triggers[2] > 0
  /\ Acted(1) /\ ~Acted(2) /\ HookConfigured(2)
  /\ exitCodes = <<0>>
  /\ \E s \in SockIds :
       sock[s].server = 2 /\ sock[s].state = "open" /\ sock[s].inflight > 0
  /\ \E s \in SockIds :
       sock[s].server = 2 /\ sock[s].state = "closed" /\ sock[s].forced

====
